---------------------------- MODULE Spec2Model ----------------------------
(***************************************************************************)
(* nwpc-workflow-log-collector: the ecFlow log window locator              *)
(* (get_line_no_range), the node record extractor (get_record_list, both   *)
(* revisions) and the per-day status analysis (analytic_status_point_dfa). *)
(*                                                                         *)
(* A log file is the sequence of the dates of its lines (get_date_from_line*)
(* applied to every line); line numbers are 1-based as in the code, batch  *)
(* indices are 0-based as in the code and turned into 1-based sequence     *)
(* indices only where a sequence is subscripted.                           *)
(***************************************************************************)
EXTENDS Integers, Sequences, FiniteSets, TLC

\* ------------------------------------------------------------------ bounds
MaxLines == 4
MaxDate == 3
MaxBatch == 5
MaxSkipBatches == 2     \* get_record_list: whole batches before the begin line
BeginSlack == 1         \* begin lines up to this far from a multiple of the batch
MaxWindow == 2          \* lines in a located window
MaxDays == 2            \* analytic_status_point_dfa: days with records
MaxRecords == 4         \* records handed to analytic_status_point_dfa
MaxSamples == 4         \* samples summarized after the loop over the range
MaxSampleTens == 4      \* samples are 10, 20, .. 10 * MaxSampleTens

\* The value of an omitted date option (start_date=None, stop_date=None).
None == -1

LineDates == 1..MaxDate
DateOptions == (0..(MaxDate + 1)) \cup {None}
BatchSizes == 1..MaxBatch

RECURSIVE SeqsUpTo(_, _)
SeqsUpTo(S, n) ==
    IF n = 0 THEN {<< >>}
    ELSE LET shorter == SeqsUpTo(S, n - 1)
         IN  shorter \cup {Append(s, x) : s \in {t \in shorter : Len(t) = n - 1}, x \in S}

LogFiles == SeqsUpTo(LineDates, MaxLines)

Min(S) == CHOOSE x \in S : \A y \in S : x <= y

VARIABLES
    \* get_line_no_range
    log_file,           \* the dates of the lines of the file at log_file_path
    start_date,
    stop_date,
    batch_line_no,
    pc,                 \* position in get_line_no_range
    num_lines,          \* line 82
    file_pos,           \* lines consumed from the handle opened at line 89
    read_count,         \* how often each line of the file has been read
    next_n_lines,       \* the batch held in memory
    cur_first_line_no,
    begin_line_no,
    end_line_no,
    ret,                \* the returned pair, << >> before the return
    \* get_record_list
    rl_version,         \* which get_record_list runs
    rl_num_lines,       \* the number of lines of the file
    rl_match,           \* the line numbers whose text matches node_path
    rl_null,            \* the matching lines the parser returns None for
    rl_window,          \* what get_line_no_range returns for the file
    rl_pc,
    rl_f_pos,           \* lines consumed from the handle f
    rl_begin_line_no,
    rl_end_line_no,
    rl_i,               \* the variable of the reading loop
    rl_examined,        \* the line numbers readline() returned, 0 at end of file
    rl_records,
    rl_ret,             \* "list", "None" or "raised" once the call is over
    \* analytic_status_point_dfa
    records,            \* the records argument, in file order
    range_start,        \* the start_date argument (a day number)
    range_end,          \* the end_date argument
    early_points,       \* NodeStatusChangeDFA: see TriggerPoints
    an_pc,
    record_list,
    current_date,
    current_records,
    next_change,        \* index into status_changes of the next entry to trigger
    triggered,          \* the entries the day's machine was triggered with
    dfa_state,          \* dfa.state
    time_points,        \* dfa.node_situation.time_points
    time_series,
    day_log,            \* one entry per classified day
    summary,            \* what is printed after the loop
    \* load_range, the node command
    cli_begin_date,     \* --begin-date: a day, BadDate or None
    cli_end_date,       \* --end-date
    cli_node_status,    \* --node-status: the name given
    cli_pc,
    cli_error,          \* the exception the command ended with, "none" if none
    cli_file_io         \* TRUE once the log file has been opened or read

locate_vars == <<log_file, start_date, stop_date, batch_line_no, pc, num_lines,
                 file_pos, read_count, next_n_lines, cur_first_line_no,
                 begin_line_no, end_line_no, ret>>

record_list_vars == <<rl_version, rl_num_lines, rl_match, rl_null, rl_window,
                      rl_pc, rl_f_pos, rl_begin_line_no, rl_end_line_no, rl_i,
                      rl_examined, rl_records, rl_ret>>

analytic_vars == <<records, range_start, range_end, early_points, an_pc,
                   record_list, current_date, current_records, next_change,
                   triggered, dfa_state, time_points, time_series, day_log,
                   summary>>

cli_vars == <<cli_begin_date, cli_end_date, cli_node_status, cli_pc, cli_error,
              cli_file_io>>

vars == <<locate_vars, record_list_vars, analytic_vars, cli_vars>>

\* ------------------------------------------------- get_line_no_range helpers

\* list(islice(log_file, batch_line_no)) with the handle at position pos.
islice(file, pos, n) ==
    SubSeq(file, pos + 1, IF pos + n <= Len(file) THEN pos + n ELSE Len(file))

\* for i in range(from, len(lines)): if date(lines[i]) >= d: ... break
\* The 0-based index the loop breaks at, or -1 when it runs to its end.
FirstAtOrAfter(lines, from, d) ==
    LET hits == {i \in from..(Len(lines) - 1) : i >= 0 /\ lines[i + 1] >= d}
    IN  IF hits = {} THEN -1 ELSE Min(hits)

\* The first index of the stop_date scan in the batch that holds the begin line.
EndScanFrom(cur_first) == cur_first - 1

\* A begin line counted from 0 instead of from 1.
BeginWithoutStart_ZeroBased(cur_first) == cur_first - 1

\* begin_line_no when start_date is None.
BeginWithoutStart(cur_first) == cur_first

\* end_line_no after a whole batch was skipped in the end-line search: the
\* cursor has already been advanced when end_line_no is computed from it.
EndAfterSkip(cur_first, n) == (cur_first + n) + n

\* A cursor advanced by one line short of the batch.
AdvanceFirstLine_LastLine(cur_first, n) == cur_first + n - 1

\* cur_first_line_no after a batch of n lines, on every path that goes on
\* to read another batch.
AdvanceFirstLine(cur_first, n) == cur_first + n

\* The pair returned when the scan of the begin batch finds the stop date.
WindowInBeginBatch(bg, en) == IF bg = en THEN <<0, 0>> ELSE <<bg, en>>

(***************************************************************************)
(* One iteration of the first while loop (begin-line search and the end    *)
(* search in the batch that holds the begin line).  lines is the batch     *)
(* just read; cur, bg, en are cur_first_line_no, begin_line_no and         *)
(* end_line_no at the head of the loop.                                    *)
(***************************************************************************)
BeginSearchBody(lines, cur, bg, en, start, stop) ==
    IF lines = << >>
    THEN [branch |-> "exhausted", pc |-> "return", cur |-> cur, bg |-> bg, en |-> en]
    ELSE IF start # None /\ lines[Len(lines)] < start
    THEN [branch |-> "skip", pc |-> "begin_search",
          cur |-> AdvanceFirstLine(cur, Len(lines)), bg |-> bg, en |-> en]
    ELSE LET i  == FirstAtOrAfter(lines, 0, start)
             b1 == IF start = None THEN BeginWithoutStart(cur)
                   ELSE IF i >= 0 THEN cur + i ELSE bg
         IN  IF stop = None
             THEN [branch |-> "stop_omitted", pc |-> "end_search",
                   cur |-> AdvanceFirstLine(cur, Len(lines)), bg |-> b1, en |-> cur + Len(lines)]
             ELSE LET j == FirstAtOrAfter(lines, EndScanFrom(cur), stop)
                  IN  IF j >= 0
                      THEN LET w == WindowInBeginBatch(b1, cur + j)
                           IN  [branch |-> "end_in_batch", pc |-> "return",
                                cur |-> cur, bg |-> w[1], en |-> w[2]]
                      ELSE [branch |-> "end_not_in_batch", pc |-> "end_search",
                            cur |-> AdvanceFirstLine(cur, Len(lines)), bg |-> b1,
                            en |-> cur + Len(lines)]

(***************************************************************************)
(* One iteration of the second while loop (end-line search in the batches  *)
(* after the one that holds the begin line).                               *)
(***************************************************************************)
EndSearchBody(lines, cur, bg, en, stop) ==
    IF lines = << >>
    THEN [branch |-> "exhausted", pc |-> "return", cur |-> cur, bg |-> bg, en |-> en]
    ELSE IF stop = None
    THEN [branch |-> "stop_omitted", pc |-> "end_search",
          cur |-> AdvanceFirstLine(cur, Len(lines)), bg |-> bg, en |-> cur + Len(lines)]
    ELSE IF lines[Len(lines)] < stop
    THEN [branch |-> "skip", pc |-> "end_search",
          cur |-> AdvanceFirstLine(cur, Len(lines)), bg |-> bg, en |-> EndAfterSkip(cur, Len(lines))]
    ELSE LET j == FirstAtOrAfter(lines, 0, stop)
         IN  IF j >= 0
             THEN [branch |-> "found", pc |-> "return", cur |-> cur, bg |-> bg,
                   en |-> cur + j]
             ELSE [branch |-> "found", pc |-> "return", cur |-> cur, bg |-> bg,
                   en |-> cur + Len(lines)]

\* The whole of get_line_no_range as a function of its arguments: the two
\* loops run from the handle position pos to a return.
RECURSIVE RunSearch(_, _, _, _, _, _, _, _, _)
RunSearch(file, start, stop, b, where, pos, cur, bg, en) ==
    LET lines == islice(file, pos, b)
        r     == IF where = "begin_search"
                 THEN BeginSearchBody(lines, cur, bg, en, start, stop)
                 ELSE EndSearchBody(lines, cur, bg, en, stop)
    IN  IF r.pc = "return" THEN <<r.bg, r.en>>
        ELSE RunSearch(file, start, stop, b, r.pc, pos + Len(lines), r.cur, r.bg, r.en)

get_line_no_range(file, start, stop, b) ==
    RunSearch(file, start, stop, b, "begin_search", 0, 1, 0, -1)

\* ------------------------------------------------- get_line_no_range actions

\* The node command is not running.
CliIdle ==
    /\ cli_begin_date = None
    /\ cli_end_date = None
    /\ cli_node_status = "submitted"
    /\ cli_pc = "idle"
    /\ cli_error = "none"
    /\ cli_file_io = FALSE

\* Nothing printed yet.  A mean is the pair <<sum, count>>; error names the
\* exception the summary ended with, "none" when it printed its two lines.
NoSummary == [mean |-> <<0, 0>>, trim_mean |-> <<0, 0>>, error |-> "none"]

\* No call of analytic_status_point_dfa is in progress.
AnalyticIdle ==
    /\ records = << >>
    /\ range_start = 0
    /\ range_end = 0
    /\ early_points = FALSE
    /\ an_pc = "idle"
    /\ record_list = << >>
    /\ current_date = 0
    /\ current_records = << >>
    /\ next_change = 0
    /\ triggered = << >>
    /\ dfa_state = "none"
    /\ time_points = << >>
    /\ time_series = << >>
    /\ day_log = << >>
    /\ summary = NoSummary

\* No call of get_record_list is in progress.
RecordListIdle ==
    /\ rl_version = "none"
    /\ rl_num_lines = 0
    /\ rl_match = {}
    /\ rl_null = {}
    /\ rl_window = << >>
    /\ rl_pc = "idle"
    /\ rl_f_pos = 0
    /\ rl_begin_line_no = 0
    /\ rl_end_line_no = 0
    /\ rl_i = 0
    /\ rl_examined = << >>
    /\ rl_records = << >>
    /\ rl_ret = "none"

InitLocate ==
    /\ log_file \in LogFiles
    /\ start_date \in DateOptions
    /\ stop_date \in DateOptions
    /\ (start_date # None /\ stop_date # None) => start_date <= stop_date
    /\ batch_line_no \in BatchSizes
    /\ pc = "count"
    /\ num_lines = 0
    /\ file_pos = 0
    /\ read_count = [n \in 1..Len(log_file) |-> 0]
    /\ next_n_lines = << >>
    /\ cur_first_line_no = 1
    /\ begin_line_no = 0
    /\ end_line_no = -1
    /\ ret = << >>
    /\ RecordListIdle
    /\ AnalyticIdle
    /\ CliIdle

Inputs == <<log_file, start_date, stop_date, batch_line_no>>

\* num_lines = sum(1 for line in open(log_file_path)), then the second open
\* and the initial values of the search.
CountLines ==
    /\ pc = "count"
    /\ num_lines' = Len(log_file)
    /\ read_count' = [n \in 1..Len(log_file) |-> read_count[n] + 1]
    /\ pc' = "begin_search"
    /\ UNCHANGED <<Inputs, file_pos, next_n_lines, cur_first_line_no,
                   begin_line_no, end_line_no, ret>>
    /\ UNCHANGED <<record_list_vars, analytic_vars, cli_vars>>

\* Read one batch and run one iteration of the loop the call is in, taking the
\* branch named `branch`.
SearchStep(branch) ==
    LET lines == islice(log_file, file_pos, batch_line_no)
        r     == IF pc = "begin_search"
                 THEN BeginSearchBody(lines, cur_first_line_no, begin_line_no,
                                      end_line_no, start_date, stop_date)
                 ELSE EndSearchBody(lines, cur_first_line_no, begin_line_no,
                                    end_line_no, stop_date)
    IN  /\ r.branch = branch
        /\ next_n_lines' = lines
        /\ file_pos' = file_pos + Len(lines)
        /\ read_count' = [n \in 1..Len(log_file) |->
                            IF n > file_pos /\ n <= file_pos + Len(lines)
                            THEN read_count[n] + 1 ELSE read_count[n]]
        /\ cur_first_line_no' = r.cur
        /\ begin_line_no' = r.bg
        /\ end_line_no' = r.en
        /\ pc' = r.pc
        /\ ret' = IF r.pc = "return" THEN <<r.bg, r.en>> ELSE ret
        /\ UNCHANGED <<Inputs, num_lines>>
        /\ UNCHANGED <<record_list_vars, analytic_vars, cli_vars>>

\* lines 95-97: the file ends before start_date is reached.
BeginSearchExhausted ==
    /\ pc = "begin_search"
    /\ SearchStep("exhausted")

\* lines 105-108: the last line of the batch is before start_date.
BeginSearchSkipBatch ==
    /\ pc = "begin_search"
    /\ SearchStep("skip")

\* lines 102-126: begin line found, stop_date is None.
BeginFoundStopOmitted ==
    /\ pc = "begin_search"
    /\ SearchStep("stop_omitted")

\* lines 102-138: begin line found, stop date found by the scan of the batch.
BeginFoundEndInBatch ==
    /\ pc = "begin_search"
    /\ SearchStep("end_in_batch")

\* lines 102-141: begin line found, the scan of the batch finds no stop date.
BeginFoundEndNotInBatch ==
    /\ pc = "begin_search"
    /\ SearchStep("end_not_in_batch")

\* lines 144-147, 176-177: the file ends during the end-line search.
EndSearchExhausted ==
    /\ pc = "end_search"
    /\ SearchStep("exhausted")

\* lines 151-154
EndSearchStopOmitted ==
    /\ pc = "end_search"
    /\ SearchStep("stop_omitted")

\* lines 157-161
EndSearchSkipBatch ==
    /\ pc = "end_search"
    /\ SearchStep("skip")

\* lines 163-174
EndSearchFound ==
    /\ pc = "end_search"
    /\ SearchStep("found")

NextLocate ==
    \/ CountLines
    \/ BeginSearchExhausted
    \/ BeginSearchSkipBatch
    \/ BeginFoundStopOmitted
    \/ BeginFoundEndInBatch
    \/ BeginFoundEndNotInBatch
    \/ EndSearchExhausted
    \/ EndSearchStopOmitted
    \/ EndSearchSkipBatch
    \/ EndSearchFound

SpecLocate == InitLocate /\ [][NextLocate]_vars

\* ------------------------------------------- get_line_no_range: properties

Returned == pc = "return"

NumLines == Len(log_file)

Monotone(file) == \A m, n \in 1..Len(file) : m <= n => file[m] <= file[n]

BothGiven == start_date # None /\ stop_date # None

InDateRange(d) == start_date <= d /\ d < stop_date

InWindow(n, w) == w[1] <= n /\ n < w[2]

\* The line numbers of the last lines of the batches the file is read in.
BatchLastLines ==
    {n \in 1..NumLines : n % batch_line_no = 0 \/ n = NumLines}

\* The begin-line search stops at some batch: its last line is not before
\* start_date (for a file in date order: the last line of the file is not).
StartReached ==
    start_date = None \/ \E n \in BatchLastLines : log_file[n] >= start_date

\* C1: boundary exactness.  For a file in date order and both dates given,
\* a line is inside the returned window exactly if its date is in
\* [start_date, stop_date).
C1_BoundaryExact ==
    (Returned /\ Monotone(log_file) /\ BothGiven) =>
        \A n \in 1..NumLines : InWindow(n, ret) <=> InDateRange(log_file[n])

\* C2: batch-size independence.  The returned window is the one every other
\* batch size returns for the same file and the same dates.
C2_BatchSizeIndependent ==
    Returned =>
        \A b \in BatchSizes :
            get_line_no_range(log_file, start_date, stop_date, b) = ret

\* C3: full cover.  For a non-empty file in date order, a start date before
\* the first line and a stop date after the last line return (1, N+1).
C3_FullCover ==
    (/\ Returned /\ Monotone(log_file) /\ BothGiven /\ NumLines >= 1
     /\ start_date < log_file[1]
     /\ stop_date > log_file[NumLines]) =>
        ret = <<1, NumLines + 1>>

\* C4: empty range inside the file.  For a file in date order with no line
\* dated in [start_date, stop_date) but some line dated >= start_date, the
\* result is the sentinel (0, 0).
C4_EmptyRangeIsSentinel ==
    (/\ Returned /\ Monotone(log_file) /\ BothGiven
     /\ \A n \in 1..NumLines : ~InDateRange(log_file[n])
     /\ \E n \in 1..NumLines : log_file[n] >= start_date) =>
        ret = <<0, 0>>

\* C5: start date never reached.  When the file is empty or every line is
\* dated before start_date, the result is the sentinel (0, 0).
C5_StartNeverReachedIsSentinel ==
    (/\ Returned
     /\ \/ NumLines = 0
        \/ start_date # None /\ \A n \in 1..NumLines : log_file[n] < start_date) =>
        ret = <<0, 0>>

\* C6 as stated: for a non-empty file, an omitted start date gives begin
\* line 1, and an omitted stop date (start reached or omitted) gives end
\* line N+1.
C6_OmittedBoundsOriginal ==
    (Returned /\ NumLines >= 1) =>
        /\ start_date = None => ret[1] = 1
        /\ (stop_date = None /\ StartReached) => ret[2] = NumLines + 1

\* C6 as amended: for a non-empty file, an omitted start date gives begin
\* line 1 unless a stop date is given and the first line of the file is
\* dated on or after it, when the result is the sentinel (0, 0); an omitted
\* stop date (start reached or omitted) gives end line N+1.
C6_OmittedBounds ==
    (Returned /\ NumLines >= 1) =>
        /\ start_date = None =>
              IF stop_date # None /\ log_file[1] >= stop_date
              THEN ret = <<0, 0>>
              ELSE ret[1] = 1
        /\ (stop_date = None /\ StartReached) => ret[2] = NumLines + 1

\* C6 witness: both dates omitted on a file of several batches, the whole
\* file returned.
C6_Witness ==
    /\ Returned
    /\ start_date = None /\ stop_date = None
    /\ NumLines > batch_line_no
    /\ ret = <<1, NumLines + 1>>

\* ---------------------------------------------------------- get_record_list

\* batch_number = 1000, the size of the batches get_record_list skips in.
batch_number == 1000

\* The record appended for a line the parser returns None for.
NullRecord == 0

\* No call of get_line_no_range is in progress.
LocateIdle ==
    /\ log_file = << >>
    /\ start_date = None
    /\ stop_date = None
    /\ batch_line_no = 1000
    /\ pc = "idle"
    /\ num_lines = 0
    /\ file_pos = 0
    /\ read_count = << >>
    /\ next_n_lines = << >>
    /\ cur_first_line_no = 1
    /\ begin_line_no = 0
    /\ end_line_no = -1
    /\ ret = << >>

\* The begin lines tried: around 1 and around every multiple of batch_number.
BeginLines ==
    {k * batch_number + d : k \in 0..MaxSkipBatches, d \in (0 - BeginSlack)..BeginSlack}
        \cap (1..(MaxSkipBatches * batch_number + BeginSlack))

\* The windows get_line_no_range hands over: the two pairs it returns when
\* it finds nothing, and windows [begin, end) of lines.
Windows ==
    {<<0, 0>>, <<0, -1>>} \cup {<<b, b + w>> : b \in BeginLines, w \in 1..MaxWindow}

\* The lines whose text is modelled: those of the window, the one before it
\* and the one after it; every other line of the file matches nothing.
Near(w, n) == {k \in (w[1] - 1)..w[2] : 1 <= k /\ k <= n}

InitRecordList ==
    /\ LocateIdle
    /\ AnalyticIdle
    /\ CliIdle
    /\ rl_version \in {"log_file_util", "analytic"}
    /\ rl_window \in Windows
    /\ rl_num_lines \in {n \in 0..(MaxSkipBatches * batch_number + BeginSlack + MaxWindow) :
                           IF rl_window[1] = 0 THEN n <= 1
                           ELSE n >= rl_window[1] /\ n >= rl_window[2] - 2
                                /\ n <= rl_window[2]}
    /\ rl_match \in SUBSET Near(rl_window, rl_num_lines)
    /\ rl_null \in SUBSET rl_match
    /\ rl_pc = "find_range"
    /\ rl_f_pos = 0
    /\ rl_begin_line_no = 0
    /\ rl_end_line_no = 0
    /\ rl_i = 0
    /\ rl_examined = << >>
    /\ rl_records = << >>
    /\ rl_ret = "none"

RecordListInputs == <<rl_version, rl_num_lines, rl_match, rl_null, rl_window>>

\* if begin_line_no == 0 or end_line_no == 0
NotFound(w) == w[1] = 0 \/ w[2] = 0

\* get_line_no_range found nothing: return None (both revisions).
ReturnNotFound ==
    /\ rl_pc = "find_range"
    /\ NotFound(rl_window)
    /\ rl_begin_line_no' = rl_window[1]
    /\ rl_end_line_no' = rl_window[2]
    /\ rl_pc' = "done"
    /\ rl_ret' = "None"
    /\ UNCHANGED <<RecordListInputs, rl_f_pos, rl_i, rl_examined, rl_records>>
    /\ UNCHANGED <<locate_vars, analytic_vars, cli_vars>>

\* begin_line_no, end_line_no = get_line_no_range(...), a window found.
FindLineRange ==
    /\ rl_pc = "find_range"
    /\ ~NotFound(rl_window)
    /\ rl_begin_line_no' = rl_window[1]
    /\ rl_end_line_no' = rl_window[2]
    /\ rl_pc' = "skip_batches"
    /\ UNCHANGED <<RecordListInputs, rl_f_pos, rl_i, rl_examined, rl_records, rl_ret>>
    /\ UNCHANGED <<locate_vars, analytic_vars, cli_vars>>

\* batch_count = int(begin_line_no/batch_number)
batch_count(bg) == bg \div batch_number

\* remain_lines = begin_line_no % batch_number
remain_lines(bg) == bg % batch_number

\* The handle after n lines were asked of it at position pos (islice stops
\* at the end of the file without an error).
Advance(pos, n, len) == IF pos + n <= len THEN pos + n ELSE len

\* for i in range(0, batch_count): next_n_lines = list(islice(f, batch_number))
SkipBatches ==
    /\ rl_pc = "skip_batches"
    /\ rl_f_pos' = Advance(rl_f_pos, batch_count(rl_begin_line_no) * batch_number,
                           rl_num_lines)
    /\ rl_pc' = "skip_remain"
    /\ UNCHANGED <<RecordListInputs, rl_begin_line_no, rl_end_line_no, rl_i,
                   rl_examined, rl_records, rl_ret>>
    /\ UNCHANGED <<locate_vars, analytic_vars, cli_vars>>

\* How often next(f) is called after the batches: range(0, remain_lines-1)
\* in log_file_util.py, range(0, remain_lines) in analytic.py.
RemainSkips(version, bg) ==
    IF version = "log_file_util"
    THEN (IF remain_lines(bg) - 1 > 0 THEN remain_lines(bg) - 1 ELSE 0)
    ELSE remain_lines(bg)

\* for i in range(...): next(f); next(f) at the end of the file raises
\* StopIteration.  Then the reading loop starts at i = begin_line_no.
SkipRemain ==
    /\ rl_pc = "skip_remain"
    /\ LET n == RemainSkips(rl_version, rl_begin_line_no)
       IN  IF rl_f_pos + n <= rl_num_lines
           THEN /\ rl_f_pos' = rl_f_pos + n
                /\ rl_pc' = "read"
                /\ rl_i' = rl_begin_line_no
                /\ rl_ret' = rl_ret
           ELSE /\ rl_f_pos' = rl_num_lines
                /\ rl_pc' = "done"
                /\ rl_i' = rl_i
                /\ rl_ret' = "raised"
    /\ UNCHANGED <<RecordListInputs, rl_begin_line_no, rl_end_line_no,
                   rl_examined, rl_records>>
    /\ UNCHANGED <<locate_vars, analytic_vars, cli_vars>>

\* What one turn of the reading loop appends for line n (0: readline() at
\* the end of the file returned ''): nothing when the line does not match
\* node_path; log_file_util.py drops a None record, analytic.py appends it.
Parsed(version, n, match, null) ==
    IF n = 0 \/ n \notin match THEN << >>
    ELSE IF n \notin null THEN <<n>>
    ELSE IF version = "log_file_util" THEN << >> ELSE <<NullRecord>>

\* One turn of for i in range(begin_line_no, end_line_no).
ReadLine ==
    /\ rl_pc = "read"
    /\ rl_i < rl_end_line_no
    /\ LET n == IF rl_f_pos < rl_num_lines THEN rl_f_pos + 1 ELSE 0
       IN  /\ rl_f_pos' = Advance(rl_f_pos, 1, rl_num_lines)
           /\ rl_examined' = Append(rl_examined, n)
           /\ rl_records' = rl_records \o Parsed(rl_version, n, rl_match, rl_null)
    /\ rl_i' = rl_i + 1
    /\ UNCHANGED <<RecordListInputs, rl_begin_line_no, rl_end_line_no, rl_pc, rl_ret>>
    /\ UNCHANGED <<locate_vars, analytic_vars, cli_vars>>

\* return records
ReturnRecords ==
    /\ rl_pc = "read"
    /\ rl_i >= rl_end_line_no
    /\ rl_pc' = "done"
    /\ rl_ret' = "list"
    /\ UNCHANGED <<RecordListInputs, rl_f_pos, rl_begin_line_no, rl_end_line_no,
                   rl_i, rl_examined, rl_records>>
    /\ UNCHANGED <<locate_vars, analytic_vars, cli_vars>>

\* analytics_node_log_with_status, the caller of the get_record_list of
\* ecflow/analytic.py: len(records) of the list returned.
CallerLen ==
    /\ rl_pc = "done"
    /\ rl_version = "analytic"
    /\ rl_ret = "list"
    /\ rl_pc' = "caller_has_len"
    /\ UNCHANGED <<RecordListInputs, rl_f_pos, rl_begin_line_no, rl_end_line_no,
                   rl_i, rl_examined, rl_records, rl_ret>>
    /\ UNCHANGED <<locate_vars, analytic_vars, cli_vars>>

\* len(records) of None: TypeError leaves analytics_node_log_with_status.
CallerLenOfNone ==
    /\ rl_pc = "done"
    /\ rl_version = "analytic"
    /\ rl_ret = "None"
    /\ rl_pc' = "caller_raised"
    /\ UNCHANGED <<RecordListInputs, rl_f_pos, rl_begin_line_no, rl_end_line_no,
                   rl_i, rl_examined, rl_records, rl_ret>>
    /\ UNCHANGED <<locate_vars, analytic_vars, cli_vars>>

NextRecordList ==
    \/ ReturnNotFound
    \/ FindLineRange
    \/ SkipBatches
    \/ SkipRemain
    \/ ReadLine
    \/ ReturnRecords
    \/ CallerLen
    \/ CallerLenOfNone

SpecRecordList == InitRecordList /\ [][NextRecordList]_vars

\* ------------------------------------------------ get_record_list: properties

RECURSIVE FromTo(_, _)
FromTo(a, b) == IF a > b THEN << >> ELSE <<a>> \o FromTo(a + 1, b)

\* The records of the lines of [bg, en) that match node_path and that the
\* parser does not return None for, in file order.
RECURSIVE RecordsOf(_, _, _, _)
RecordsOf(bg, en, match, null) ==
    IF bg >= en THEN << >>
    ELSE (IF bg \in match /\ bg \notin null THEN <<bg>> ELSE << >>)
         \o RecordsOf(bg + 1, en, match, null)

\* C7: the extractor reads exactly the located window.  When the reading
\* loop starts, begin_line_no - 1 lines have been skipped; the lines read
\* are those numbered begin_line_no .. end_line_no - 1; the list returned
\* holds, in file order, the non-null records of the matching lines of the
\* window.
C7_ReadsExactlyTheWindow ==
    /\ (rl_pc = "read" /\ rl_i = rl_begin_line_no) => rl_f_pos = rl_begin_line_no - 1
    /\ (rl_pc = "done" /\ rl_ret = "list" /\ rl_end_line_no <= rl_num_lines + 1) =>
          /\ rl_examined = FromTo(rl_begin_line_no, rl_end_line_no - 1)
          /\ rl_records = RecordsOf(rl_begin_line_no, rl_end_line_no, rl_match, rl_null)

\* --------------------------------------------------- analytic_status_point_dfa

\* A record is [date, tod, status]: its day, its time of day (its place in
\* the file stands for it) and, for a StatusLogRecord of the node, the
\* status; status "other" is a record that is not a StatusLogRecord of
\* node_path.
NodeStatuses == {"submitted", "active", "complete"}

\* A day is longer than every time of day.
DayLength == MaxRecords + 1

RecordLists ==
    {rs \in SeqsUpTo((1..MaxDays) \X (NodeStatuses \cup {"other"}), MaxRecords) :
        \A i, j \in 1..Len(rs) : i <= j => rs[i][1] <= rs[j][1]}

AsRecords(rs) == [i \in 1..Len(rs) |-> [date |-> rs[i][1], tod |-> i, status |-> rs[i][2]]]

InitAnalytic ==
    /\ LocateIdle
    /\ RecordListIdle
    /\ CliIdle
    /\ records \in {AsRecords(rs) : rs \in RecordLists}
    /\ range_start \in 1..MaxDays
    /\ range_end \in range_start..(MaxDays + 1)
    /\ early_points \in BOOLEAN
    /\ an_pc = "filter"
    /\ record_list = << >>
    /\ current_date = 0
    /\ current_records = << >>
    /\ next_change = 0
    /\ triggered = << >>
    /\ dfa_state = "none"
    /\ time_points = << >>
    /\ time_series = << >>
    /\ day_log = << >>
    /\ summary = NoSummary

AnalyticInputs == <<records, range_start, range_end, early_points>>

\* record.node_path == node_path and isinstance(record, StatusLogRecord)
IsNodeStatusRecord(r) == r.status # "other"

\* The loop over records, then the first day of pd.date_range(start_date,
\* end_date, closed="left").
FilterRecords ==
    /\ an_pc = "filter"
    /\ record_list' = SelectSeq(records, IsNodeStatusRecord)
    /\ current_date' = range_start
    /\ an_pc' = "next_day"
    /\ UNCHANGED <<AnalyticInputs, current_records, next_change, triggered,
                   dfa_state, time_points, time_series, day_log, summary>>
    /\ UNCHANGED <<locate_vars, record_list_vars, cli_vars>>

\* generate_in_date_range(current_date, current_date + 1 day):
\* start_date <= record.date <= end_date, the dates taken at midnight.
in_date_range(day, next_day, r) == day <= r.date /\ r.date <= next_day

DayRecords(day, rs) ==
    LET keep(r) == in_date_range(day, day + 1, r) IN SelectSeq(rs, keep)

\* status_changes = [StatusChangeEntry(r) for r in current_records]
StatusChanges(rs) == rs

\* The next day of the range: its records, a new NodeStatusChangeDFA.
StartDay ==
    /\ an_pc = "next_day"
    /\ current_date < range_end
    /\ current_records' = DayRecords(current_date, record_list)
    /\ dfa_state' = "Pending"
    /\ time_points' = << >>
    /\ triggered' = << >>
    /\ next_change' = 1
    /\ an_pc' = IF StatusChanges(current_records') = << >> THEN "classify" ELSE "trigger"
    /\ UNCHANGED <<AnalyticInputs, record_list, current_date, time_series,
                   day_log, summary>>
    /\ UNCHANGED <<locate_vars, record_list_vars, cli_vars>>

(***************************************************************************)
(* NodeStatusChangeDFA.trigger.  States Pending, InProgress and Complete;  *)
(* submitted starts the day, complete is the terminal status, every other  *)
(* status leaves the state alone.                                          *)
(***************************************************************************)
TriggerState(state, status) ==
    IF state = "Complete" THEN "Complete"
    ELSE IF status = "complete" THEN "Complete"
    ELSE IF state = "Pending" /\ status = "submitted" THEN "InProgress"
    ELSE state

Recorded(points, status) == \E k \in 1..Len(points) : points[k].status = status

\* The time points after trigger: the first occurrence of a status is
\* recorded with its date and time.  Whether a status seen before submitted
\* is recorded is not fixed by the machine's description: early says which.
TriggerPoints(state, points, r, early) ==
    IF state = "Complete" \/ Recorded(points, r.status) THEN points
    ELSE IF state = "Pending" /\ r.status \notin {"submitted", "complete"} /\ ~early
    THEN points
    ELSE Append(points, r)

\* A loop over the day's entries without the break.
StopsAt_Never(state) == FALSE

\* if dfa.state is SituationType.Complete: break
StopsAt(state) == state = "Complete"

\* One turn of for s in status_changes.
Trigger ==
    /\ an_pc = "trigger"
    /\ next_change <= Len(StatusChanges(current_records))
    /\ LET s == StatusChanges(current_records)[next_change]
       IN  /\ dfa_state' = TriggerState(dfa_state, s.status)
           /\ time_points' = TriggerPoints(dfa_state, time_points, s, early_points)
           /\ triggered' = Append(triggered, s)
    /\ next_change' = next_change + 1
    /\ an_pc' = IF StopsAt(dfa_state') \/ next_change' > Len(StatusChanges(current_records))
                THEN "classify" ELSE "trigger"
    /\ UNCHANGED <<AnalyticInputs, record_list, current_date, current_records,
                   time_series, day_log, summary>>
    /\ UNCHANGED <<locate_vars, record_list_vars, cli_vars>>

\* A day counted as complete as soon as it has started.
IsCompleteDay_Started(state) == state # "Pending"

\* if dfa.state is SituationType.Complete
IsCompleteDay(state) == state = "Complete"

\* node_situation.time_points[1]: the index, from 0, of the point read.
PointIndex == 1

\* time_length = p.time - current_date
TimeLength(p, day) == (p.date - day) * DayLength + p.tod

DayEntry(outcome, sample) ==
    [date |-> current_date, events |-> current_records, triggered |-> triggered,
     state |-> dfa_state, points |-> time_points, outcome |-> outcome,
     sample |-> sample]

\* The day is over: the next value of the loop over the range.
EndDay(outcome, sample) ==
    /\ day_log' = Append(day_log, DayEntry(outcome, sample))
    /\ current_date' = current_date + 1
    /\ an_pc' = "next_day"
    /\ UNCHANGED <<AnalyticInputs, record_list, current_records, next_change,
                   triggered, dfa_state, time_points, summary>>
    /\ UNCHANGED <<locate_vars, record_list_vars, cli_vars>>

\* else: "skip: DFA is not in complete", print_records(current_records)
DayNotComplete ==
    /\ an_pc = "classify"
    /\ ~IsCompleteDay(dfa_state)
    /\ time_series' = time_series
    /\ EndDay("not_complete", 0)

\* p = node_situation.time_points[1] with fewer than two points: IndexError
\* leaves analytic_status_point_dfa.
DayIndexError ==
    /\ an_pc = "classify"
    /\ IsCompleteDay(dfa_state)
    /\ Len(time_points) < PointIndex + 1
    /\ an_pc' = "raised"
    /\ UNCHANGED <<AnalyticInputs, record_list, current_date, current_records,
                   next_change, triggered, dfa_state, time_points, time_series,
                   day_log, summary>>
    /\ UNCHANGED <<locate_vars, record_list_vars, cli_vars>>

\* "skip: there is no submitted", print_records(current_records)
DayNoSubmitted ==
    /\ an_pc = "classify"
    /\ IsCompleteDay(dfa_state)
    /\ Len(time_points) >= PointIndex + 1
    /\ time_points[PointIndex + 1].status # "submitted"
    /\ time_series' = time_series
    /\ EndDay("no_submitted", 0)

\* time_series.append(time_length)
DaySample ==
    /\ an_pc = "classify"
    /\ IsCompleteDay(dfa_state)
    /\ Len(time_points) >= PointIndex + 1
    /\ time_points[PointIndex + 1].status = "submitted"
    /\ LET time_length == TimeLength(time_points[PointIndex + 1], current_date)
       IN  /\ time_series' = Append(time_series, time_length)
           /\ EndDay("sample", time_length)

RECURSIVE SumSeq(_)
SumSeq(q) == IF q = << >> THEN 0 ELSE q[1] + SumSeq(Tail(q))

RECURSIVE Insert(_, _)
Insert(q, x) ==
    IF q = << >> THEN <<x>>
    ELSE IF x <= q[1] THEN <<x>> \o q
    ELSE <<q[1]>> \o Insert(Tail(q), x)

RECURSIVE Sorted(_)
Sorted(q) == IF q = << >> THEN << >> ELSE Insert(Sorted(Tail(q)), q[1])

\* A mean is the pair <<sum, count>>; count 0 is NaN (NaT once printed).
\* time_series.mean()
Mean(q) == <<SumSeq(q), Len(q)>>

\* Values cut from the low end only.
TrimMean_LowOnly(q) ==
    LET lowercut == Len(q) \div 4
    IN  Mean(SubSeq(Sorted(q), lowercut + 1, Len(q)))

\* stats.trim_mean(time_series.values, 0.25): int(0.25 * n) values are cut
\* from each end of the sorted values.
TrimMean(q) ==
    LET lowercut == Len(q) \div 4
        uppercut == Len(q) - lowercut
    IN  Mean(SubSeq(Sorted(q), lowercut + 1, uppercut))

\* The range is over: the mean and the trimmed mean are printed.
Summarize ==
    /\ an_pc = "next_day"
    /\ current_date >= range_end
    /\ summary' = [mean |-> Mean(time_series), trim_mean |-> TrimMean(time_series),
                   error |-> "none"]
    /\ an_pc' = "done"
    /\ UNCHANGED <<AnalyticInputs, record_list, current_date, current_records,
                   next_change, triggered, dfa_state, time_points, time_series,
                   day_log>>
    /\ UNCHANGED <<locate_vars, record_list_vars, cli_vars>>

NextAnalytic ==
    \/ FilterRecords
    \/ StartDay
    \/ Trigger
    \/ DayNotComplete
    \/ DayIndexError
    \/ DayNoSubmitted
    \/ DaySample
    \/ Summarize

SpecAnalytic == InitAnalytic /\ [][NextAnalytic]_vars

\* ------------------------------------- analytic_status_point_dfa: properties

Statuses(rs) == [k \in 1..Len(rs) |-> rs[k].status]

\* submitted, then intermediate statuses, then complete (whatever follows).
NormalDay(rs) ==
    /\ Len(rs) >= 2
    /\ rs[1].status = "submitted"
    /\ \E k \in 2..Len(rs) :
          /\ rs[k].status = "complete"
          /\ \A j \in 2..(k - 1) : rs[j].status = "active"

NoTerminal(rs) == \A k \in 1..Len(rs) : rs[k].status # "complete"

Anomalous(state, points) ==
    state = "Complete" /\ Len(points) >= 1 /\ points[1].status # "submitted"

\* C9: anomalous day exclusion.  A day that reaches Complete with a first
\* recorded time point other than submitted is flagged, adds no sample, and
\* does not end the run.
C9_AnomalousDayExcluded ==
    /\ an_pc = "raised" => ~Anomalous(dfa_state, time_points)
    /\ \A k \in 1..Len(day_log) :
          Anomalous(day_log[k].state, day_log[k].points) =>
              day_log[k].outcome = "no_submitted"

\* The records of the node dated day.
OwnRecords(day) == LET on(r) == r.date = day IN SelectSeq(record_list, on)

\* The day's own events are submitted followed by complete.
SubmittedThenComplete(day) == Statuses(OwnRecords(day)) = <<"submitted", "complete">>

\* C10: sample of a normal day.  A day of the range whose events are
\* submitted at time t followed by complete adds one sample, t minus the
\* start of the day, and is not what ends the run; a range of k such days
\* ends with k samples, in day order.
C10_NormalDaySample ==
    /\ (an_pc = "raised" /\ current_date \in range_start..(range_end - 1)) =>
          ~SubmittedThenComplete(current_date)
    /\ \A k \in 1..Len(day_log) :
          SubmittedThenComplete(day_log[k].date) =>
              /\ day_log[k].outcome = "sample"
              /\ day_log[k].sample = OwnRecords(day_log[k].date)[1].tod
    /\ (/\ an_pc = "done"
        /\ \A d \in range_start..(range_end - 1) : SubmittedThenComplete(d)) =>
          time_series = [k \in 1..(range_end - range_start) |->
                            OwnRecords(range_start + k - 1)[1].tod]

\* ------------------------------------------------- the summary of a series

SampleValues == {10 * k : k \in 1..MaxSampleTens}

\* The loop over the range is over and has left any series of samples.
InitSummarize ==
    /\ LocateIdle
    /\ RecordListIdle
    /\ CliIdle
    /\ records = << >>
    /\ range_start = 1
    /\ range_end = 1
    /\ early_points = FALSE
    /\ an_pc = "next_day"
    /\ record_list = << >>
    /\ current_date = 1
    /\ current_records = << >>
    /\ next_change = 0
    /\ triggered = << >>
    /\ dfa_state = "none"
    /\ time_points = << >>
    /\ time_series \in SeqsUpTo(SampleValues, MaxSamples)
    /\ day_log = << >>
    /\ summary = NoSummary

NextSummarize == Summarize

SpecSummarize == InitSummarize /\ [][NextSummarize]_vars

Max(S) == CHOOSE x \in S : \A y \in S : x >= y

Values(q) == {q[k] : k \in 1..Len(q)}

\* q without the first occurrence of x.
RECURSIVE Without(_, _)
Without(q, x) ==
    IF q = << >> THEN << >>
    ELSE IF q[1] = x THEN Tail(q)
    ELSE <<q[1]>> \o Without(Tail(q), x)

\* q with its k lowest and its k highest values discarded.
RECURSIVE Discard(_, _)
Discard(q, k) ==
    IF k = 0 \/ q = << >> THEN q
    ELSE LET lower == Without(q, Min(Values(q)))
         IN  IF lower = << >> THEN << >>
             ELSE Discard(Without(lower, Max(Values(lower))), k - 1)

\* floor(0.25 * n)
Quarter(n) == (25 * n) \div 100

\* C11: trimmed mean policy.  For n >= 1 samples the trimmed mean printed
\* is the mean of the samples left after floor(0.25 * n) of the lowest and
\* as many of the highest are discarded: [10, 20, 30, 40] gives the mean of
\* 20 and 30, and three samples give the plain mean.
C11_TrimmedMean ==
    (an_pc = "done" /\ Len(time_series) >= 1) =>
        LET kept == Discard(time_series, Quarter(Len(time_series)))
        IN  /\ summary.error = "none"
            /\ summary.trim_mean = <<SumSeq(kept), Len(kept)>>
            /\ time_series = <<10, 20, 30, 40>> => summary.trim_mean = <<20 + 30, 2>>
            /\ Len(time_series) = 3 => summary.trim_mean = summary.mean

\* C11 witness: four samples out of order, the lowest and the highest cut.
C11_Witness ==
    /\ an_pc = "done"
    /\ time_series = <<40, 10, 30, 20>>
    /\ summary.trim_mean = <<50, 2>>

\* A mean that is no value: the mean of no samples, printed as NaN or NaT.
IsNaN(m) == m[2] = 0

\* C12: an empty series is an explicit error.  When no day gave a sample
\* the summary ends with the EmptySeries outcome and no NaN is printed as a
\* mean.
C12_EmptySeriesIsError ==
    (an_pc = "done" /\ time_series = << >>) =>
        /\ summary.error = "EmptySeries"
        /\ ~IsNaN(summary.mean)
        /\ ~IsNaN(summary.trim_mean)

\* ------------------------------------- get_line_no_range: shape and reading

\* C16: window shape invariant.  Every pair returned by get_line_no_range
\* is either the sentinel (0, 0) or has 1 <= begin < end; no other pair
\* that holds 0 or a negative number is returned.
C16_WindowShape ==
    Returned => \/ ret = <<0, 0>>
                \/ (1 <= ret[1] /\ ret[1] < ret[2])

\* C17: single forward pass with a bounded buffer.  During one call each
\* line of the file is read at most once, and at most one batch of at most
\* batch_line_no lines is held.
C17_SinglePass ==
    /\ \A n \in DOMAIN read_count : read_count[n] <= 1
    /\ Len(next_n_lines) <= batch_line_no

\* C20: cursor invariant.  At the head of either while loop, when the next
\* batch is about to be read, cur_first_line_no is 1 plus the number of
\* lines the search has read from the file so far.
C20_CursorInvariant ==
    pc \in {"begin_search", "end_search"} => cur_first_line_no = 1 + file_pos

\* C20 witness: batches of one line; the first was skipped before
\* start_date, the second holds the begin line, the third was skipped
\* before stop_date, and a fourth read is about to happen.
C20_Witness ==
    /\ pc = "end_search"
    /\ batch_line_no = 1
    /\ start_date # None /\ stop_date # None
    /\ file_pos = 3
    /\ log_file[1] < start_date
    /\ begin_line_no = 2
    /\ log_file[2] <= log_file[3]
    /\ log_file[3] < stop_date
    /\ cur_first_line_no = 4

\* ------------------------------------ analytic_status_point_dfa: the days

RangeDays == range_start..(range_end - 1)

\* C14: day-level failure isolation.  No day's outcome aborts the loop over
\* the range: whatever a day ends as, every day of [start, stop) is
\* classified, and the run goes on to the summary.
C14_DayFailureIsolated ==
    /\ an_pc # "raised"
    /\ an_pc = "done" =>
          \A d \in RangeDays : \E k \in 1..Len(day_log) : day_log[k].date = d

\* C18: days do not share events.  The machine of day d is triggered only
\* with events dated d, and no event is triggered in two days' machines.
C18_DaysDoNotShareEvents ==
    /\ an_pc \in {"trigger", "classify"} =>
          \A k \in 1..Len(triggered) : triggered[k].date = current_date
    /\ \A i \in 1..Len(day_log) :
          /\ \A k \in 1..Len(day_log[i].triggered) :
                day_log[i].triggered[k].date = day_log[i].date
          /\ \A j \in 1..Len(day_log) :
                i # j => Values(day_log[i].triggered) \cap Values(day_log[j].triggered) = {}

\* C19: stop at Complete.  Once a day's machine is in Complete no turn of
\* the loop over the day's entries is taken, and the state, the time
\* points and the entries triggered stay as they were when Complete was
\* reached, until the next day's machine is made.
C19_StopAtComplete ==
    /\ [](dfa_state = "Complete" => an_pc # "trigger")
    /\ [][(dfa_state = "Complete" /\ an_pc # "next_day") =>
             /\ dfa_state' = dfa_state
             /\ time_points' = time_points
             /\ triggered' = triggered]_vars

\* C19 witness: a classified day that reached Complete and left a later
\* entry of the same day untriggered.
C19_Witness ==
    \E i \in 1..Len(day_log) :
        LET e == day_log[i]
        IN  /\ e.state = "Complete"
            /\ Len(e.triggered) < Len(e.events)
            /\ e.events[Len(e.triggered) + 1].date = e.date
            /\ e.triggered[Len(e.triggered)].status = "complete"

\* ------------------------------------------ get_record_list: no range found

Sentinel == <<0, 0>>

\* C13: extractor on an absent range.  When the window handed over is the
\* sentinel, get_record_list returns the empty list of records and has
\* parsed no line, and the caller's len(records) succeeds.
C13_AbsentRangeIsEmptyList ==
    rl_window = Sentinel =>
        /\ rl_pc \in {"done", "caller_has_len", "caller_raised"} =>
              /\ rl_ret = "list"
              /\ rl_records = << >>
              /\ rl_examined = << >>
        /\ rl_pc # "caller_raised"

\* ------------------------------------------------ load_range, the node command

\* A date option whose text does not match "%Y-%m-%d".
BadDate == 0

\* What --begin-date and --end-date can be: omitted (the default None), a
\* text that is no date, or a day.
CliDates == {None, BadDate} \cup (1..MaxDate)

\* What --node-status can be: the name of a member of NodeStatus or not.
CliStatusNames == NodeStatuses \cup {"no_such_status"}

InitCli ==
    /\ LocateIdle
    /\ RecordListIdle
    /\ AnalyticIdle
    /\ cli_begin_date \in CliDates
    /\ cli_end_date \in CliDates
    /\ cli_node_status \in CliStatusNames
    /\ cli_pc = "begin_date"
    /\ cli_error = "none"
    /\ cli_file_io = FALSE

CliInputs == <<cli_begin_date, cli_end_date, cli_node_status>>

\* datetime.datetime.strptime(text, "%Y-%m-%d"): "ok", or the exception.
strptime(text) ==
    IF text = None THEN "TypeError"
    ELSE IF text = BadDate THEN "ValueError"
    ELSE "ok"

\* A lookup that finds every name.
IsNodeStatusName_Any(name) == TRUE

\* NodeStatus[node_status] finds the name.
IsNodeStatusName(name) == name \in NodeStatuses

\* An exception leaves load_range.
CliRaise(error) ==
    /\ cli_pc' = "raised"
    /\ cli_error' = error
    /\ UNCHANGED <<CliInputs, cli_file_io>>
    /\ UNCHANGED <<locate_vars, record_list_vars, analytic_vars>>

CliGoTo(where) ==
    /\ cli_pc' = where
    /\ UNCHANGED <<CliInputs, cli_error, cli_file_io>>
    /\ UNCHANGED <<locate_vars, record_list_vars, analytic_vars>>

\* begin_date = datetime.datetime.strptime(begin_date, "%Y-%m-%d")
ParseBeginDate ==
    /\ cli_pc = "begin_date"
    /\ strptime(cli_begin_date) = "ok"
    /\ CliGoTo("end_date")

BeginDateRaises ==
    /\ cli_pc = "begin_date"
    /\ strptime(cli_begin_date) # "ok"
    /\ CliRaise(strptime(cli_begin_date))

\* end_date = datetime.datetime.strptime(end_date, "%Y-%m-%d")
ParseEndDate ==
    /\ cli_pc = "end_date"
    /\ strptime(cli_end_date) = "ok"
    /\ CliGoTo("node_status")

EndDateRaises ==
    /\ cli_pc = "end_date"
    /\ strptime(cli_end_date) # "ok"
    /\ CliRaise(strptime(cli_end_date))

\* node_status = NodeStatus[node_status]
LookupNodeStatus ==
    /\ cli_pc = "node_status"
    /\ IsNodeStatusName(cli_node_status)
    /\ CliGoTo("call")

NodeStatusRaises ==
    /\ cli_pc = "node_status"
    /\ ~IsNodeStatusName(cli_node_status)
    /\ CliRaise("KeyError")

\* analytics_task_node_log_with_status(log_file, ...): the log file is
\* opened and read, the window located, the records analysed.
analytics_task_node_log_with_status ==
    /\ cli_pc = "call"
    /\ cli_file_io' = TRUE
    /\ cli_pc' = "finished"
    /\ UNCHANGED <<CliInputs, cli_error>>
    /\ UNCHANGED <<locate_vars, record_list_vars, analytic_vars>>

NextCli ==
    \/ ParseBeginDate
    \/ BeginDateRaises
    \/ ParseEndDate
    \/ EndDateRaises
    \/ LookupNodeStatus
    \/ NodeStatusRaises
    \/ analytics_task_node_log_with_status

SpecCli == InitCli /\ [][NextCli]_vars

CliOver == cli_pc \in {"raised", "finished"}

UnknownStatus == cli_node_status \notin NodeStatuses

\* C15 as stated: with a --node-status that is no member of the
\* enumeration the command fails with the unknown-status error, and the
\* log file is never opened or read.
C15_UnknownStatusFirstOriginal ==
    UnknownStatus =>
        /\ ~cli_file_io
        /\ CliOver => (cli_pc = "raised" /\ cli_error = "KeyError")

\* C15: with a --node-status that is no member of the enumeration the
\* command fails and the log file is never opened or read; the failure is
\* the unknown-status error when both dates are given and parse, and
\* otherwise the error of the first date that is omitted or is no date,
\* raised before the status is looked up.
C15_UnknownStatusBeforeFileAccess ==
    UnknownStatus =>
        /\ ~cli_file_io
        /\ cli_pc # "call"
        /\ CliOver =>
              /\ cli_pc = "raised"
              /\ cli_error =
                    IF strptime(cli_begin_date) # "ok" THEN strptime(cli_begin_date)
                    ELSE IF strptime(cli_end_date) # "ok" THEN strptime(cli_end_date)
                    ELSE "KeyError"

\* C15 witness: both dates parse, the status name is unknown, and the
\* command has failed on the lookup with the file untouched.
C15_Witness ==
    /\ UnknownStatus
    /\ cli_begin_date >= 1 /\ cli_end_date >= 1
    /\ cli_pc = "raised"
    /\ cli_error = "KeyError"
    /\ ~cli_file_io

\* -------------------------------------- get_line_no_range: end of the window

\* C21: the end line stays inside the file.  A window returned by
\* get_line_no_range that is not the sentinel has end <= N + 1, N the
\* number of lines of the file, also when the end-line search skips whole
\* batches before stop_date and then reaches the end of the file.
C21_EndInsideFile ==
    (Returned /\ ret # Sentinel) => ret[2] <= NumLines + 1

=============================================================================
